---- MODULE Spec2Model ----
(***************************************************************************)
(* Model of the synthetic physiological data generator                     *)
(* (utils/data_generator.py, class InfantPhysiologicalDataGenerator).      *)
(*                                                                         *)
(* Numeric conventions.  Python floats are modelled as fixed-point         *)
(* integers: every physical quantity (degrees C, bpm, mmHg, percent, pH,   *)
(* mmol) is held in thousandths of its unit.  Rates are exact rationals    *)
(* [num, den] (thousandths of a degree per hour over a divisor), so that a *)
(* division by 60 is an operation of the model and not a change of unit.   *)
(* Times are integer minutes; a value "in hours" is held in thousandths of *)
(* an hour, rounded down, which keeps equality with a whole hour exact.    *)
(*                                                                         *)
(* numpy's process-wide RandomState is one variable, rng: a small linear   *)
(* congruential generator.  Every np.random.* call advances it once and    *)
(* derives its value from the new state.                                   *)
(***************************************************************************)
EXTENDS Integers, Sequences, FiniteSets, TLC

VARIABLES
    rng,        \* state of numpy's global RandomState (module-level, shared)
    gens,       \* self.seed of every generator object constructed so far
    calls,      \* number of constructor and method calls made so far
    batch,      \* frame of a generate_batch_dataset call in progress
    ret,        \* what the last finished call handed to its caller
    finalized,  \* patient records finished by the batch that ended last
    runs,       \* history: completed generate_batch_dataset calls
    precs,      \* history: patient records produced, with the seed of their generator
    unit,       \* a single call of one method from an arbitrary RandomState
    eeg,        \* frame of a generate_eeg_data call (loop state and history)
    hist,       \* history: per generator, the calls made on it since construction
    clock,      \* the system clock of the scoring host, in seconds since 1970 (UTC)
    files,      \* outputs/cds: file name |-> what the file holds
    writer,     \* frame of a save_outputs call
    reader,     \* frame of a request to GET /cds/scorecards/latest
    client,     \* the bedside polling loop (cds_client.py)
    scored      \* what the last call at the risk-scoring boundary gave its caller

vars == <<rng, gens, calls, batch, ret, finalized, runs, precs, unit, eeg, hist, clock, files, writer, reader, client, scored>>

\* the variables of the scoring host, the API server and the bedside client
svcVars == <<clock, files, writer, reader, client, scored>>

---------------------------------------------------------------------------
(* Bounds of the model *)

RngMod == 64          \* number of states of the abstract RandomState
MaxCalls == 3         \* constructor and method calls per behaviour
MaxPatients == 2      \* num_patients of a batch
MaxBatchHours == 4    \* duration_hours of a batch or of a call in a sequence of calls
MaxHours == 8         \* duration_hours of a single call
MaxEegMinutes == 3    \* duration_minutes of an EEG recording

Seeds == {1, 2}
TimeSteps == {5, 60, 90, 240}      \* time_step_minutes of a single call
SeqTimeSteps == {5, 90}            \* time_step_minutes of a call in a sequence of calls
Severities == {"mild", "moderate", "severe"}

---------------------------------------------------------------------------
(* numpy.random: the global generator *)

\* np.random.seed(seed): the state is a function of the seed alone
SeedState(seed) == (seed * 37 + 11) % RngMod

\* one step of the generator; the new state is also the raw draw
NextRng(s) == (s * 21 + 17) % RngMod

\* np.random.uniform(lo, hi): a value of [lo, hi) from raw draw u
Uniform(u, lo, hi) == lo + ((hi - lo) * u) \div RngMod

\* np.random.randint(lo, hi): an integer of lo..hi-1
RandInt(u, lo, hi) == lo + ((hi - lo) * u) \div RngMod

\* np.random.choice(seq): one element, uniformly
Choice(u, seq) == seq[1 + (Len(seq) * u) \div RngMod]

\* The standard normal, reduced to sixteen representative quantiles, in
\* tenths of a standard deviation.
ZTable == <<-50, -30, -20, -15, -10, -6, -3, -1, 1, 3, 6, 10, 15, 20, 30, 50>>

\* np.random.normal(0, sigma)
Normal(u, sigma) == (sigma * ZTable[1 + (Len(ZTable) * u) \div RngMod]) \div 10

\* np.random.random() < p, with p = pnum/pden
RandomBelow(u, pnum, pden) == u * pden < pnum * RngMod

\* v bound to a name in the expression F: an assignment statement
Bind(v, F(_)) == F(v)

\* 21^k and 1 + 21 + ... + 21^(k-1), modulo RngMod, by repeated squaring
RECURSIVE MulPow(_)
MulPow(k) ==
    IF k = 0 THEN 1
    ELSE IF k % 2 = 0 THEN LET h == MulPow(k \div 2) IN (h * h) % RngMod
    ELSE (21 * MulPow(k - 1)) % RngMod

RECURSIVE MulSum(_)
MulSum(k) ==
    IF k = 0 THEN 0
    ELSE IF k % 2 = 0 THEN (MulSum(k \div 2) * (1 + MulPow(k \div 2))) % RngMod
    ELSE (1 + 21 * MulSum(k - 1)) % RngMod

\* the state after k draws: NextRng applied k times
AdvanceN(s, k) == (MulPow(k) * s + 17 * MulSum(k)) % RngMod

\* np.clip(x, lo, hi) = minimum(maximum(x, lo), hi)
Clip(x, lo, hi) ==
    LET a == IF x < lo THEN lo ELSE x
    IN  IF a > hi THEN hi ELSE a

Abs(x) == IF x < 0 THEN -x ELSE x

\* len(array)
len(seq) == Cardinality(DOMAIN seq)

\* sin(2*pi*num/den) in thousandths, at 15-degrees resolution
SinTable == <<0, 259, 500, 707, 866, 966, 1000, 966, 866, 707, 500, 259,
              0, -259, -500, -707, -866, -966, -1000, -966, -866, -707, -500, -259>>
Sin2Pi(num, den) == SinTable[1 + (((num * 24) \div den) % 24)]

\* len(np.arange(0, stop, step)) = ceil(stop / step)
ArangeLen(stop, step) == (stop + step - 1) \div step

\* np.arange(0, stop, step)
Arange(stop, step) == [k \in 1..ArangeLen(stop, step) |-> (k - 1) * step]

---------------------------------------------------------------------------
(* generate_baseline_parameters *)

SeizureRiskTable == [mild |-> 100, moderate |-> 400, severe |-> 700]

\* The dict literal is evaluated top to bottom: twelve draws, in this order.
generate_baseline_parameters(s0, patient_id) ==
    LET s1  == NextRng(s0)
        s2  == NextRng(s1)
        s3  == NextRng(s2)
        s4  == NextRng(s3)
        s5  == NextRng(s4)
        s6  == NextRng(s5)
        s7  == NextRng(s6)
        s8  == NextRng(s7)
        s9  == NextRng(s8)
        s10 == NextRng(s9)
        s11 == NextRng(s10)
        s12 == NextRng(s11)
    IN  [rng |-> s12,
         val |-> [patient_id            |-> patient_id,
                  birth_weight_kg       |-> Uniform(s1, 2500, 4500),
                  gestational_age_weeks |-> Uniform(s2, 35000, 42000),
                  birth_hour            |-> RandInt(s3, 0, 24),
                  hie_severity          |-> Choice(s4, <<"mild", "moderate", "severe">>),
                  baseline_heart_rate   |-> Uniform(s5, 120000, 160000),
                  baseline_resp_rate    |-> Uniform(s6, 40000, 60000),
                  baseline_systolic_bp  |-> Uniform(s7, 50000, 70000),
                  baseline_diastolic_bp |-> Uniform(s8, 30000, 45000),
                  baseline_oxygen_sat   |-> Uniform(s9, 95000, 100000),
                  baseline_rectal_temp  |-> Uniform(s10, 36800, 37400),
                  baseline_core_temp    |-> Uniform(s11, 36500, 37300),
                  seizure_risk_factor   |->
                      SeizureRiskTable[Choice(s12, <<"mild", "moderate", "severe">>)]]]

\* the keys of the baseline dict, in insertion order
BaselineKeys ==
    <<"patient_id", "birth_weight_kg", "gestational_age_weeks", "birth_hour",
      "hie_severity", "baseline_heart_rate", "baseline_resp_rate",
      "baseline_systolic_bp", "baseline_diastolic_bp", "baseline_oxygen_sat",
      "baseline_rectal_temp", "baseline_core_temp", "seizure_risk_factor">>

---------------------------------------------------------------------------
(* generate_cooling_protocol *)

Rate(num) == [num |-> num, den |-> 1]

\* x / 60 on a rate
Div60(r) == [num |-> r.num, den |-> r.den * 60]

SelectSevere(protocols, hie_severity) == protocols["severe"]

\* protocol = protocols[hie_severity]
SelectProtocol(protocols, hie_severity) == protocols[hie_severity]

\* The protocols dict holds all three severities, so all nine draws are
\* made on every call, whatever the severity asked for.
\* protocol['start_time'] = datetime.now() is not part of any dataset and is
\* left out of the record.
generate_cooling_protocol(s0, hie_severity, baseline_temp) ==
    LET s1 == NextRng(s0)
        s2 == NextRng(s1)
        s3 == NextRng(s2)
        s4 == NextRng(s3)
        s5 == NextRng(s4)
        s6 == NextRng(s5)
        s7 == NextRng(s6)
        s8 == NextRng(s7)
        s9 == NextRng(s8)
        protocols ==
            [mild     |-> [target_temp    |-> Uniform(s1, 32500, 33500),
                           duration_hours |-> 48,
                           cooling_rate   |-> Rate(Uniform(s2, 100, 200)),
                           rewarming_rate |-> Rate(Uniform(s3, 50, 100))],
             moderate |-> [target_temp    |-> Uniform(s4, 33000, 33500),
                           duration_hours |-> 72,
                           cooling_rate   |-> Rate(Uniform(s5, 150, 250)),
                           rewarming_rate |-> Rate(Uniform(s6, 50, 100))],
             severe   |-> [target_temp    |-> Uniform(s7, 32000, 33500),
                           duration_hours |-> 72,
                           cooling_rate   |-> Rate(Uniform(s8, 200, 300)),
                           rewarming_rate |-> Rate(Uniform(s9, 50, 80))]]
        protocol == SelectProtocol(protocols, hie_severity)
    IN  [rng |-> s9,
         val |-> [target_temp    |-> protocol.target_temp,
                  duration_hours |-> protocol.duration_hours,
                  cooling_rate   |-> protocol.cooling_rate,
                  rewarming_rate |-> protocol.rewarming_rate,
                  baseline_temp  |-> baseline_temp]]

---------------------------------------------------------------------------
(* The signal synthesizers.  Each returns the RandomState it leaves behind *)
(* (rng) and its arrays.                                                   *)

UpperOnlyClip(x, lo, hi) == IF x > hi THEN hi ELSE x

\* np.clip as the synthesizers use it to enforce a modality's bounds
ClipBounds(x, lo, hi) == Clip(x, lo, hi)

\* cooling_rate / 60 * time_points[i], for a rate [num, den] and t minutes
RateTimes(r, t) == (r.num * t) \div (r.den * 60)

\* cooling_phase_steps = int(abs(baseline - target) / (cooling_rate / 60) / time_step)
CoolingPhaseSteps(baseline_temp, target_temp, cooling_rate, time_step) ==
    (Abs(baseline_temp - target_temp) * cooling_rate.den * 60)
        \div (cooling_rate.num * time_step)

\* One draw per sample: sample i (from 0) uses the (i+1)-th state after s0.
\* cooling and noise_free are not returned by the code: they record, per
\* sample, which branch of the loop produced it and the value of
\* current_temp before the jitter is added.
simulate_rectal_temperature(s0, baseline_temp, target_temp, cooling_rate, rewarming_rate, duration_minutes, time_step) ==
    LET time_points == Arange(duration_minutes, time_step)
        cooling_phase_steps ==
            CoolingPhaseSteps(baseline_temp, target_temp, cooling_rate, time_step)
        before_jitter(i) ==
            IF i < cooling_phase_steps
            THEN baseline_temp - RateTimes(cooling_rate, time_points[i + 1])
            ELSE target_temp
        sample(i) ==
            LET u == AdvanceN(s0, i + 1)
                current_temp ==
                    IF i < cooling_phase_steps
                    THEN before_jitter(i) + Normal(u, 50)
                    ELSE before_jitter(i) + Normal(u, 150)
            IN  ClipBounds(current_temp, target_temp - 500, baseline_temp + 500)
    IN  [rng |-> AdvanceN(s0, len(time_points)),
         time_points |-> time_points,
         temperatures |-> [k \in DOMAIN time_points |-> sample(k - 1)],
         cooling |-> [k \in DOMAIN time_points |-> (k - 1) < cooling_phase_steps],
         noise_free |-> [k \in DOMAIN time_points |-> before_jitter(k - 1)]]

\* One draw for hypothermia_effect, then one per sample.
generate_heart_rate_data(s0, baseline_hr, duration_minutes, time_step, stress_level) ==
    LET time_points == Arange(duration_minutes, time_step)
        hypothermia_effect == Uniform(AdvanceN(s0, 1), 850, 950)
        sample(i) ==
            LET u == AdvanceN(s0, i + 2)
                base_hr == (baseline_hr * hypothermia_effect) \div 1000
                noise == Normal(u, 5000)
                \* sin(2*pi*i / (60*60/time_step))
                stress_component ==
                    (stress_level * Sin2Pi(i * time_step, 60 * 60)) \div 1000
            IN  ClipBounds(base_hr + noise + stress_component, 80000, 180000)
    IN  [rng |-> AdvanceN(s0, len(time_points) + 1),
         time_points |-> time_points,
         heart_rates |-> [k \in DOMAIN time_points |-> sample(k - 1)]]

\* Two draws per sample: systolic noise, then diastolic noise.
generate_blood_pressure_data(s0, baseline_systolic, baseline_diastolic, duration_minutes, time_step) ==
    LET time_points == Arange(duration_minutes, time_step)
        \* 0.95 + 0.1 * sin(2*pi*i / (120*60/time_step))
        trend(i) == 950 + (100 * Sin2Pi(i * time_step, 120 * 60)) \div 1000
        sys_bp(i) == (baseline_systolic * trend(i)) \div 1000
                         + Normal(AdvanceN(s0, 2 * i + 1), 3000)
        dia_bp(i) == (baseline_diastolic * trend(i)) \div 1000
                         + Normal(AdvanceN(s0, 2 * i + 2), 2000)
    IN  [rng |-> AdvanceN(s0, 2 * len(time_points)),
         time_points |-> time_points,
         systolic_bp |-> [k \in DOMAIN time_points |->
                             ClipBounds(sys_bp(k - 1), 40000, 80000)],
         diastolic_bp |-> [k \in DOMAIN time_points |->
                              ClipBounds(dia_bp(k - 1), 20000, 50000)]]

\* i % (20*60/time_step) < 10*60/time_step, multiplied through by time_step
DipCondition(i, time_step) == ((i * time_step) % (20 * 60)) < 10 * 60

\* One draw per sample for the noise, and one more before it on a sample
\* that takes the desaturation branch.  dips is not returned by the code: it
\* records, per sample, whether that branch was taken.
generate_oxygen_saturation_data(s0, baseline_spo2, duration_minutes, time_step, respiratory_distress) ==
    LET time_points == Arange(duration_minutes, time_step)
        dip(i) == respiratory_distress /\ DipCondition(i, time_step)
        \* draws made by the samples before sample i
        before(i) == i + Cardinality({j \in 0..(i - 1) : dip(j)})
        sample(i) ==
            LET base_spo2 ==
                    IF dip(i)
                    THEN baseline_spo2
                             - Uniform(AdvanceN(s0, before(i) + 1), 2000, 5000)
                    ELSE baseline_spo2
                spo2 == base_spo2 + Normal(AdvanceN(s0, before(i + 1)), 500)
            IN  ClipBounds(spo2, 92000, 100000)
    IN  [rng |-> AdvanceN(s0, before(len(time_points))),
         time_points |-> time_points,
         spo2_values |-> [k \in DOMAIN time_points |-> sample(k - 1)],
         dips |-> [k \in DOMAIN time_points |-> dip(k - 1)]]

AbgBaselines ==
    [mild     |-> [pH |-> 7350, pCO2 |-> 45000, pO2 |-> 85000, lactate |-> 2000],
     moderate |-> [pH |-> 7300, pCO2 |-> 48000, pO2 |-> 75000, lactate |-> 4000],
     severe   |-> [pH |-> 7250, pCO2 |-> 50000, pO2 |-> 65000, lactate |-> 8000]]

\* x * 0.9 ** i
RECURSIVE Decay(_, _)
Decay(x, i) == IF i = 0 THEN x ELSE (Decay(x, i - 1) * 9) \div 10

\* time_points has ceil(duration_hours / time_step_hours) entries, the value
\* arrays have duration_hours // time_step_hours.  Four draws per sample.
generate_blood_gas_data(s0, duration_hours, time_step_hours, hie_severity) ==
    LET num_points == duration_hours \div time_step_hours
        time_points == Arange(duration_hours, time_step_hours)
        baseline == AbgBaselines[hie_severity]
        improvement_factor(i) == 1000 - 10 * i
        draw(i, j) == AdvanceN(s0, 4 * i + j)
    IN  [rng |-> AdvanceN(s0, 4 * num_points),
         time_points |-> time_points,
         pH |-> [k \in 1..num_points |-> baseline.pH
                    + (Uniform(draw(k - 1, 1), -50, 100)
                          * improvement_factor(k - 1)) \div 1000],
         pco2 |-> [k \in 1..num_points |-> baseline.pCO2
                    + (Uniform(draw(k - 1, 2), -5000, 3000)
                          * improvement_factor(k - 1)) \div 1000],
         po2 |-> [k \in 1..num_points |-> baseline.pO2
                    + (Uniform(draw(k - 1, 3), -10000, 15000)
                          * improvement_factor(k - 1)) \div 1000],
         lactate |-> [k \in 1..num_points |->
                    Decay(baseline.lactate, k - 1)
                        + Uniform(draw(k - 1, 4), -500, 500)]]

---------------------------------------------------------------------------
(* pandas.  A DataFrame is [columns, rows]: the column labels in order and *)
(* one function from label to value per row.  A float that may be NaN is   *)
(* held as <<v>>, and NaN as <<>>.                                         *)

NaN == <<>>
Val(v) == <<v>>

\* the inputs of the DataFrame constructor: an array, or a scalar to broadcast
Arr(seq) == [arr |-> TRUE, v |-> seq]
Scalar(x) == [arr |-> FALSE, v |-> x]

EmptyDF == [columns |-> <<>>, rows |-> <<>>]

Range(seq) == {seq[k] : k \in DOMAIN seq}

\* pd.DataFrame(dict): arrays of unequal length raise ValueError
\* ("All arrays must be of the same length")
DataFrame(columns, data) ==
    LET lens == {len(data[c].v) : c \in {d \in Range(columns) : data[d].arr}}
    IN  IF Cardinality(lens) # 1
        THEN [ok |-> FALSE, exc |-> "ValueError", df |-> EmptyDF]
        ELSE LET n == CHOOSE l \in lens : TRUE
             IN  [ok |-> TRUE, exc |-> "",
                  df |-> [columns |-> columns,
                          rows |-> [k \in 1..n |->
                              [c \in Range(columns) |->
                                  IF data[c].arr THEN data[c].v[k]
                                  ELSE data[c].v]]]]

\* df[name] = scalar: a new last column, or an existing one overwritten
SetColumn(df, name, value) ==
    [columns |-> IF name \in Range(df.columns) THEN df.columns
                 ELSE Append(df.columns, name),
     rows |-> [k \in DOMAIN df.rows |->
                  [c \in (DOMAIN df.rows[k]) \cup {name} |->
                      IF c = name THEN value ELSE df.rows[k][c]]]]

\* df[new] = df[old]
CopyColumn(df, new, old) ==
    [columns |-> IF new \in Range(df.columns) THEN df.columns
                 ELSE Append(df.columns, new),
     rows |-> [k \in DOMAIN df.rows |->
                  [c \in (DOMAIN df.rows[k]) \cup {new} |->
                      IF c = new THEN df.rows[k][old] ELSE df.rows[k][c]]]]

\* df.drop(name, axis=1)
DropColumn(df, name) ==
    [columns |-> SelectSeq(df.columns, LAMBDA c : c # name),
     rows |-> [k \in DOMAIN df.rows |->
                  [c \in (DOMAIN df.rows[k]) \ {name} |-> df.rows[k][c]]]]

\* the concatenation of a sequence of sequences, by halves
RECURSIVE Flatten(_)
Flatten(seqs) ==
    IF seqs = <<>> THEN <<>>
    ELSE IF Len(seqs) = 1 THEN seqs[1]
    ELSE LET half == Len(seqs) \div 2
         IN  Flatten(SubSeq(seqs, 1, half)) \o Flatten(SubSeq(seqs, half + 1, Len(seqs)))

\* left.merge(right, left_on=..., right_on=..., how=how), how 'left' or
\* 'inner'.  With two different key names both key columns are kept, and
\* every label the two frames share is suffixed _x on the left and _y on
\* the right.  A left row yields one row per right row of equal key, in the
\* right frame's order; when there is none it yields one row with the right
\* columns NaN under 'left' and no row under 'inner'.  The left key is a
\* plain float, the right columns are floats that may be NaN.
Merge(left, right, left_on, right_on, how) ==
    LET shared == (Range(left.columns) \cap Range(right.columns))
                      \ (IF left_on = right_on THEN {left_on} ELSE {})
        lname(c) == IF c \in shared THEN c \o "_x" ELSE c
        rname(c) == IF c \in shared THEN c \o "_y" ELSE c
        rcols == SelectSeq(right.columns,
                           LAMBDA c : ~(left_on = right_on /\ c = right_on))
        columns == [k \in DOMAIN left.columns |-> lname(left.columns[k])]
                       \o [k \in DOMAIN rcols |-> rname(rcols[k])]
        lpart(lrow) == [c \in {lname(d) : d \in Range(left.columns)} |->
                           lrow[CHOOSE d \in Range(left.columns) : lname(d) = c]]
        rpart(rrow) == [c \in {rname(d) : d \in Range(rcols)} |->
                           rrow[CHOOSE d \in Range(rcols) : rname(d) = c]]
        rnan == [c \in {rname(d) : d \in Range(rcols)} |-> NaN]
        matches(lrow) ==
            SelectSeq(right.rows, LAMBDA rrow : rrow[right_on] = Val(lrow[left_on]))
        expand(lrow) ==
            IF matches(lrow) = <<>>
            THEN IF how = "left" THEN <<lpart(lrow) @@ rnan>> ELSE <<>>
            ELSE [k \in DOMAIN matches(lrow) |-> lpart(lrow) @@ rpart(matches(lrow)[k])]
    IN  [columns |-> columns,
         rows |-> Flatten([k \in DOMAIN left.rows |-> expand(left.rows[k])])]

MergeInner(left, right, left_on, right_on) ==
    Merge(left, right, left_on, right_on, "inner")

\* df.merge(abg_df, left_on=..., right_on=..., how='left')
MergeLeft(left, right, left_on, right_on) ==
    Merge(left, right, left_on, right_on, "left")

BfillRows(rows, cols) ==
    [k \in DOMAIN rows |->
        [c \in DOMAIN rows[k] |->
            IF c \in cols
            THEN LET later == {j \in k..Len(rows) : rows[j][c] # NaN}
                 IN  IF later = {} THEN NaN
                     ELSE rows[CHOOSE j \in later : \A m \in later : j <= m][c]
            ELSE rows[k][c]]]

\* rows[cols].fillna(method='ffill'): a NaN takes the last value above it
FfillRows(rows, cols) ==
    [k \in DOMAIN rows |->
        [c \in DOMAIN rows[k] |->
            IF c \in cols
            THEN LET prior == {j \in 1..k : rows[j][c] # NaN}
                 IN  IF prior = {} THEN NaN
                     ELSE rows[CHOOSE j \in prior : \A m \in prior : j >= m][c]
            ELSE rows[k][c]]]

\* df[cols] = df[cols].fillna(method='ffill')
Ffill(df, cols) == [columns |-> df.columns, rows |-> FfillRows(df.rows, cols)]

\* pd.concat(datasets, ignore_index=True) of frames with the same columns
Concat(datasets) ==
    [columns |-> IF datasets = <<>> THEN <<>> ELSE datasets[1].columns,
     rows |-> Flatten([k \in DOMAIN datasets |-> datasets[k].rows])]

---------------------------------------------------------------------------
(* generate_complete_patient_dataset *)

\* time_points / 60: minutes to hours (thousandths of an hour)
HoursOfMinutes(t) == (t * 1000) \div 60

\* an integer number of hours, as np.arange(0, duration_hours, 4) yields it
HoursOfInt(h) == h * 1000

MapVal(seq) == [k \in DOMAIN seq |-> Val(seq[k])]

VitalsColumns ==
    <<"patient_id", "time_minutes", "time_hours", "rectal_temperature_c",
      "heart_rate_bpm", "systolic_bp_mmhg", "diastolic_bp_mmhg",
      "oxygen_saturation_percent", "hie_severity", "target_temp_c">>

AbgColumns == <<"time_hours", "pH", "pCO2_mmhg", "pO2_mmhg", "lactate_mmol">>

FilledColumns == {"pH", "pCO2_mmhg", "pO2_mmhg", "lactate_mmol"}

\* for key, value in baseline_params.items():
\*     if key != 'patient_id': df[f'baseline_{key}'] = value
\* Every key gives a label of its own, so the loop adds its columns in the
\* order of the keys; a label the frame already had would be overwritten.
AddBaselineColumns(df, keys, baseline_params) ==
    LET added == SelectSeq(keys, LAMBDA key : key # "patient_id")
        label(key) == "baseline_" \o key
        values == [c \in {label(key) : key \in Range(added)} |->
                      baseline_params[CHOOSE key \in Range(added) : label(key) = c]]
    IN  [columns |-> df.columns
                         \o SelectSeq([k \in DOMAIN added |-> label(added[k])],
                                      LAMBDA c : c \notin Range(df.columns)),
         rows |-> [k \in DOMAIN df.rows |-> values @@ df.rows[k]]]

\* lines 363-374: the base frame on the vitals grid
VitalsFrame(patient_id, baseline_params, protocol, t, h, bp, o) ==
    DataFrame(VitalsColumns,
        [patient_id |-> Scalar(patient_id),
         time_minutes |-> Arr(t.time_points),
         time_hours |-> Arr([k \in DOMAIN t.time_points |->
                                HoursOfMinutes(t.time_points[k])]),
         rectal_temperature_c |-> Arr(t.temperatures),
         heart_rate_bpm |-> Arr(h.heart_rates),
         systolic_bp_mmhg |-> Arr(bp.systolic_bp),
         diastolic_bp_mmhg |-> Arr(bp.diastolic_bp),
         oxygen_saturation_percent |-> Arr(o.spo2_values),
         hie_severity |-> Scalar(baseline_params.hie_severity),
         target_temp_c |-> Scalar(protocol.target_temp)])

\* lines 384-390: the blood-gas frame
AbgFrame(g) ==
    DataFrame(AbgColumns,
        [time_hours |-> Arr([k \in DOMAIN g.time_points |->
                                Val(HoursOfInt(g.time_points[k]))]),
         pH |-> Arr(MapVal(g.pH)),
         pCO2_mmhg |-> Arr(MapVal(g.pco2)),
         pO2_mmhg |-> Arr(MapVal(g.po2)),
         lactate_mmol |-> Arr(MapVal(g.lactate))])

\* lines 393-397: the merge, the forward fill and the drop of the key copy
AlignBloodGas(vitals_df, abg_df) ==
    DropColumn(
        Ffill(MergeLeft(CopyColumn(vitals_df, "time_hours_abg", "time_hours"),
                        abg_df, "time_hours_abg", "time_hours"),
              FilledColumns),
        "time_hours_abg")

\* the outcome of the call and the values it computed on the way
PipelineResult(s, ok, exc, df, baseline_params, protocol, g, abg_df, t, o) ==
    [rng |-> s, ok |-> ok, exc |-> exc, df |-> df, baseline |-> baseline_params,
     protocol |-> protocol, gas |-> g, abg |-> abg_df, dips |-> o.dips,
     time_points |-> t.time_points, cooling |-> t.cooling,
     noise_free |-> t.noise_free]

\* The whole call, statement by statement.  An exception ends it where it is
\* raised, with the draws made until then consumed.
PatientPipeline(s0, patient_id, duration_hours, time_step_minutes) ==
    Bind(generate_baseline_parameters(s0, patient_id), LAMBDA b :
    Bind(generate_cooling_protocol(b.rng, b.val.hie_severity,
                                   b.val.baseline_rectal_temp), LAMBDA p :
    Bind(simulate_rectal_temperature(p.rng, p.val.baseline_temp, p.val.target_temp,
             Div60(p.val.cooling_rate), Div60(p.val.rewarming_rate),
             duration_hours * 60, time_step_minutes), LAMBDA t :
    Bind(generate_heart_rate_data(t.rng, b.val.baseline_heart_rate,
             duration_hours * 60, time_step_minutes, 500), LAMBDA h :
    Bind(generate_blood_pressure_data(h.rng, b.val.baseline_systolic_bp,
             b.val.baseline_diastolic_bp, duration_hours * 60,
             time_step_minutes), LAMBDA bp :
    Bind(generate_oxygen_saturation_data(bp.rng, b.val.baseline_oxygen_sat,
             duration_hours * 60, time_step_minutes,
             b.val.hie_severity = "severe"), LAMBDA o :
    Bind(VitalsFrame(patient_id, b.val, p.val, t, h, bp, o), LAMBDA vitals :
    IF ~vitals.ok
    THEN PipelineResult(o.rng, FALSE, vitals.exc, EmptyDF, b.val, p.val,
                        [time_points |-> <<>>], EmptyDF, t, o)
    ELSE
    Bind(generate_blood_gas_data(o.rng, duration_hours, 4, b.val.hie_severity),
         LAMBDA g :
    Bind(AbgFrame(g), LAMBDA abg :
    IF ~abg.ok
    THEN PipelineResult(g.rng, FALSE, abg.exc, EmptyDF, b.val, p.val, g, EmptyDF, t, o)
    ELSE PipelineResult(g.rng, TRUE, "",
             AddBaselineColumns(AlignBloodGas(vitals.df, abg.df), BaselineKeys, b.val),
             b.val, p.val, g, abg.df, t, o))))))))))

\* what the caller sees: the frame returned or the exception raised, and the
\* RandomState left behind
generate_complete_patient_dataset(s0, patient_id, duration_hours, time_step_minutes) ==
    LET r == PatientPipeline(s0, patient_id, duration_hours, time_step_minutes)
    IN  [rng |-> r.rng, ok |-> r.ok, exc |-> r.exc, df |-> r.df]

\* f'PATIENT_{i+1:04d}' for loop index i: the prefix and four decimal digits
PatientId(i) ==
    <<"PATIENT_", ((i + 1) \div 1000) % 10, ((i + 1) \div 100) % 10,
      ((i + 1) \div 10) % 10, (i + 1) % 10>>

---------------------------------------------------------------------------
(* Idle values of each group of variables *)

NoBatch == [pc |-> "idle", seed |-> 0, num_patients |-> 0, duration_hours |-> 0,
            i |-> 0, datasets |-> <<>>]
NoRet == [kind |-> "none", call |-> "", exc |-> "", df |-> EmptyDF]
NoEeg == [pc |-> "idle", duration_minutes |-> 0, time_step |-> 1, i |-> 0,
          seizure_active |-> FALSE, seizure_start_minute |-> NaN,
          scheduled |-> NaN, sample |-> NaN, run |-> 0, episode |-> NaN]
eegIdle == eeg = NoEeg

\* no call has been made on any generator
NoHist == [seed \in Seeds |-> <<>>]

\* 1999-12-31T23:59:58Z, in seconds since 1970
ClockStart == 946684798

NoWriter == [pc |-> "idle", saves |-> 0, out_path |-> <<>>, doc |-> <<>>, done |-> {}]
NoReader == [pc |-> "idle", p |-> <<>>, had_finished |-> FALSE, status |-> 0, content |-> <<>>]
NoClient == [pc |-> "request", e |-> "", interval |-> 0, failed |-> FALSE]
NoScored == [fn |-> "none"]

\* the scoring host has saved nothing, no request is in progress and the
\* bedside loop is about to make its first request
IdleSvc ==
    /\ clock = ClockStart
    /\ files = << >>
    /\ writer = NoWriter
    /\ reader = NoReader
    /\ client = NoClient
    /\ scored = NoScored

genVars == <<gens, calls, batch, ret, finalized, runs, precs, hist>>

IdleGen ==
    /\ gens = {}
    /\ calls = 0
    /\ batch = NoBatch
    /\ ret = NoRet
    /\ finalized = 0
    /\ runs = {}
    /\ precs = {}
    /\ hist = NoHist

---------------------------------------------------------------------------
(* Single calls: one method applied once, from any RandomState *)

NoUnit == [fn |-> "none"]

InitUnit ==
    /\ rng \in 0..(RngMod - 1)
    /\ IdleGen
    /\ unit = NoUnit
    /\ eegIdle
    /\ IdleSvc

UnitComplete ==
    /\ unit.fn = "none"
    /\ \E i \in 0..1, d \in 1..MaxHours, ts \in TimeSteps :
         LET r == PatientPipeline(rng, PatientId(i), d, ts)
         IN  /\ unit' = [fn |-> "generate_complete_patient_dataset",
                         patient_id |-> PatientId(i), duration_hours |-> d,
                         time_step_minutes |-> ts, out |-> r]
             /\ rng' = r.rng
    /\ UNCHANGED <<genVars, eeg, svcVars>>

UnitProtocol ==
    /\ unit.fn = "none"
    /\ \E sev \in Severities, bt \in {36800, 37399} :
         LET r == generate_cooling_protocol(rng, sev, bt)
         IN  /\ unit' = [fn |-> "generate_cooling_protocol", hie_severity |-> sev,
                         out |-> r.val]
             /\ rng' = r.rng
    /\ UNCHANGED <<genVars, eeg, svcVars>>

UnitBaseline ==
    /\ unit.fn = "none"
    /\ \E i \in 0..1 :
         LET r == generate_baseline_parameters(rng, PatientId(i))
         IN  /\ unit' = [fn |-> "generate_baseline_parameters",
                         patient_id |-> PatientId(i), out |-> r.val]
             /\ rng' = r.rng
    /\ UNCHANGED <<genVars, eeg, svcVars>>

NextUnit ==
    \/ UnitComplete
    \/ UnitProtocol
    \/ UnitBaseline

SpecUnit == InitUnit /\ [][NextUnit]_vars

---------------------------------------------------------------------------
(* Sequences of calls on generator objects of one process *)

\* duration_hours of a call in a sequence of calls
SeqHours == (MaxBatchHours - 1)..MaxBatchHours

\* InfantPhysiologicalDataGenerator(seed): reseeds the one global RandomState
Construct(seed) ==
    /\ batch.pc = "idle"
    /\ calls < MaxCalls
    /\ rng' = SeedState(seed)
    /\ gens' = gens \cup {seed}
    /\ calls' = calls + 1
    /\ hist' = [hist EXCEPT ![seed] = <<>>]
    /\ UNCHANGED <<batch, ret, finalized, runs, precs, unit, eeg, svcVars>>

\* an entry of hist: a call of generate_complete_patient_dataset made on the
\* generator with its arguments and its outcome, or the draws of a call
\* that an interrupt cut short
OwnCall(patient_id, duration_hours, time_step_minutes, r) ==
    [kind |-> "call", patient_id |-> patient_id, duration_hours |-> duration_hours,
     time_step_minutes |-> time_step_minutes, draws |-> 0, ok |-> r.ok, df |-> r.df]

OwnDraws(draws) ==
    [kind |-> "draws", patient_id |-> <<>>, duration_hours |-> 0,
     time_step_minutes |-> 0, draws |-> draws, ok |-> FALSE, df |-> EmptyDF]

PatientRun(seed, patient_id, duration_hours, time_step_minutes, df) ==
    [seed |-> seed, patient_id |-> patient_id, duration_hours |-> duration_hours,
     time_step_minutes |-> time_step_minutes, df |-> df]

\* generator.generate_complete_patient_dataset(patient_id, duration_hours,
\* time_step_minutes), on a generator constructed with seed
CallComplete(seed, patient_id, duration_hours, time_step_minutes) ==
    /\ batch.pc = "idle"
    /\ calls < MaxCalls
    /\ seed \in gens
    /\ LET r == generate_complete_patient_dataset(rng, patient_id, duration_hours,
                                                  time_step_minutes)
       IN  /\ rng' = r.rng
           /\ ret' = [kind |-> IF r.ok THEN "return" ELSE "raise",
                      call |-> "generate_complete_patient_dataset",
                      exc |-> r.exc, df |-> r.df]
           /\ precs' = IF r.ok
                       THEN precs \cup {PatientRun(seed, patient_id, duration_hours,
                                                   time_step_minutes, r.df)}
                       ELSE precs
           /\ hist' = [hist EXCEPT ![seed] =
                          Append(@, OwnCall(patient_id, duration_hours,
                                            time_step_minutes, r))]
    /\ calls' = calls + 1
    /\ UNCHANGED <<gens, batch, finalized, runs, unit, eeg, svcVars>>

\* generator.generate_batch_dataset(num_patients, duration_hours): datasets = []
BatchStart(seed, num_patients, duration_hours) ==
    /\ batch.pc = "idle"
    /\ calls < MaxCalls
    /\ seed \in gens
    /\ batch' = [pc |-> "loop", seed |-> seed, num_patients |-> num_patients,
                 duration_hours |-> duration_hours, i |-> 0, datasets |-> <<>>]
    /\ calls' = calls + 1
    /\ UNCHANGED <<rng, gens, ret, finalized, runs, precs, hist, unit, eeg, svcVars>>

\* the time_step_minutes the batch loop leaves at its default
DefaultTimeStep == 5

\* one iteration of the loop: the patient's frame is appended to datasets
BatchPatientDone ==
    /\ batch.pc = "loop"
    /\ batch.i < batch.num_patients
    /\ LET patient_id == PatientId(batch.i)
           r == generate_complete_patient_dataset(rng, patient_id,
                    batch.duration_hours, DefaultTimeStep)
       IN  /\ r.ok
           /\ rng' = r.rng
           /\ batch' = [batch EXCEPT !.i = @ + 1, !.datasets = Append(@, r.df)]
           /\ precs' = precs \cup {PatientRun(batch.seed, patient_id,
                                       batch.duration_hours, DefaultTimeStep, r.df)}
           /\ hist' = [hist EXCEPT ![batch.seed] =
                          Append(@, OwnCall(patient_id, batch.duration_hours,
                                            DefaultTimeStep, r))]
    /\ UNCHANGED <<gens, calls, ret, finalized, runs, unit, eeg, svcVars>>

\* one iteration of the loop in which the patient's generation raises: the
\* exception leaves generate_batch_dataset, whose local datasets is dropped
BatchPatientRaises ==
    /\ batch.pc = "loop"
    /\ batch.i < batch.num_patients
    /\ LET r == generate_complete_patient_dataset(rng, PatientId(batch.i),
                    batch.duration_hours, DefaultTimeStep)
       IN  /\ ~r.ok
           /\ rng' = r.rng
           /\ ret' = [kind |-> "raise", call |-> "generate_batch_dataset",
                      exc |-> r.exc, df |-> EmptyDF]
           /\ hist' = [hist EXCEPT ![batch.seed] =
                          Append(@, OwnCall(PatientId(batch.i), batch.duration_hours,
                                            DefaultTimeStep, r))]
    /\ finalized' = Len(batch.datasets)
    /\ batch' = NoBatch
    /\ UNCHANGED <<gens, calls, runs, precs, unit, eeg, svcVars>>

\* the loop is over: combined_df = pd.concat(datasets, ignore_index=True)
BatchReturn ==
    /\ batch.pc = "loop"
    /\ batch.i = batch.num_patients
    /\ LET combined_df == Concat(batch.datasets)
       IN  /\ ret' = [kind |-> "return", call |-> "generate_batch_dataset",
                      exc |-> "", df |-> combined_df]
           /\ runs' = runs \cup {[seed |-> batch.seed,
                                  num_patients |-> batch.num_patients,
                                  duration_hours |-> batch.duration_hours,
                                  df |-> combined_df]}
    /\ finalized' = Len(batch.datasets)
    /\ batch' = NoBatch
    /\ UNCHANGED <<rng, gens, calls, precs, hist, unit, eeg, svcVars>>

\* The batch is stopped while patients remain.  The method has no stop
\* request, callback or partial return: the one way to stop it is to
\* interrupt the thread (KeyboardInterrupt), which unwinds the call.  The
\* interrupt lands after `draws` random draws of the patient in progress.
BatchInterrupt(draws) ==
    /\ batch.pc = "loop"
    /\ batch.i < batch.num_patients
    /\ rng' = AdvanceN(rng, draws)
    /\ ret' = [kind |-> "raise", call |-> "generate_batch_dataset",
               exc |-> "KeyboardInterrupt", df |-> EmptyDF]
    /\ hist' = [hist EXCEPT ![batch.seed] = Append(@, OwnDraws(draws))]
    /\ finalized' = Len(batch.datasets)
    /\ batch' = NoBatch
    /\ UNCHANGED <<gens, calls, runs, precs, unit, eeg, svcVars>>

---------------------------------------------------------------------------
(* generate_eeg_data, one loop iteration per step.  Minutes are held as    *)
(* seconds: current_minute and seizure_start_minute are 60 times the       *)
(* source's values.                                                        *)

\* Onsets t0 (seconds, below 480) for which the float comparison
\* (t0 + 120) / 60 < t0 / 60 + 2 is true: t0 / 60 + 2 rounds up there, so the
\* window holds one sample more.
LateOnsets ==
    {26, 41, 56, 70, 71, 85, 86, 100, 101, 115, 116, 125, 127, 140, 142, 155,
     157, 170, 172, 185, 187, 200, 202, 215, 217, 230, 232, 370, 374, 385, 389,
     400, 404, 415, 419, 430, 434, 445, 449, 460, 464, 475, 479}

\* current_minute < seizure_start_minute + seizure_duration, in float64
InWindow(t, start) ==
    \/ t < start + 2 * 60
    \/ t = start + 2 * 60 /\ start \in LateOnsets

\* the three band powers of one sample
BandPowers(s, seizure_active) ==
    IF seizure_active
    THEN [delta |-> Uniform(AdvanceN(s, 1), 50000, 150000),
          theta |-> Uniform(AdvanceN(s, 2), 100000, 250000),
          alpha |-> Uniform(AdvanceN(s, 3), 200000, 400000)]
    ELSE [delta |-> Uniform(AdvanceN(s, 1), 10000, 40000),
          theta |-> Uniform(AdvanceN(s, 2), 5000, 20000),
          alpha |-> Uniform(AdvanceN(s, 3), 2000, 10000)]

\* generate_eeg_data(duration_minutes, seizure_start_minute=scheduled) is
\* entered; scheduled is NaN for None
EegCall(duration_minutes, scheduled) ==
    /\ eeg.pc = "idle"
    /\ eeg' = [pc |-> "loop", duration_minutes |-> duration_minutes,
               time_step |-> 1, i |-> 0, seizure_active |-> FALSE,
               seizure_start_minute |-> scheduled, scheduled |-> scheduled,
               sample |-> NaN, run |-> 0, episode |-> NaN]
    /\ UNCHANGED <<rng, genVars, unit, svcVars>>

\* One iteration of the loop.  run counts the consecutive SeizureActive
\* samples up to this one, episode is the length of the last run that ended
\* in a Normal sample; the code keeps neither.
EegStep ==
    /\ eeg.pc = "loop"
    /\ eeg.i < ArangeLen(eeg.duration_minutes * 60, eeg.time_step)
    /\ LET current_minute == eeg.i * eeg.time_step
           drawn == eeg.seizure_start_minute = NaN
           s1 == IF drawn THEN NextRng(rng) ELSE rng
           onset == drawn /\ RandomBelow(s1, 1, 5 * eeg.duration_minutes * 60)
           start == IF onset THEN Val(current_minute) ELSE eeg.seizure_start_minute
           seizure_active ==
               IF start = NaN THEN eeg.seizure_active
               ELSE InWindow(current_minute, start[1])
           cleared == start # NaN /\ ~InWindow(current_minute, start[1])
       IN  /\ rng' = AdvanceN(s1, 3)
           /\ eeg' = [eeg EXCEPT
                  !.i = @ + 1,
                  !.seizure_active = seizure_active,
                  !.seizure_start_minute = IF cleared THEN NaN ELSE start,
                  !.sample = Val(BandPowers(s1, seizure_active)),
                  !.run = IF seizure_active THEN @ + 1 ELSE 0,
                  !.episode = IF ~seizure_active /\ eeg.run > 0
                              THEN Val(eeg.run) ELSE @]
    /\ UNCHANGED <<genVars, unit, svcVars>>

\* the loop is over: the arrays are returned
EegReturn ==
    /\ eeg.pc = "loop"
    /\ eeg.i = ArangeLen(eeg.duration_minutes * 60, eeg.time_step)
    /\ eeg' = [eeg EXCEPT !.pc = "done"]
    /\ UNCHANGED <<rng, genVars, unit, svcVars>>

\* seizure_start_minute as a caller passes it: None, or a whole minute
ScheduledStarts == {NaN} \cup {Val(m * 60) : m \in 0..1}

InitEEG ==
    /\ rng \in 0..(RngMod - 1)
    /\ IdleGen
    /\ unit = NoUnit
    /\ eegIdle
    /\ IdleSvc

NextEEG ==
    \/ \E d \in 1..MaxEegMinutes, scheduled \in ScheduledStarts :
           EegCall(d, scheduled)
    \/ EegStep
    \/ EegReturn

SpecEEG == InitEEG /\ [][NextEEG]_vars

---------------------------------------------------------------------------
Init ==
    /\ rng = 0
    /\ IdleGen
    /\ unit = NoUnit
    /\ eegIdle
    /\ IdleSvc

Next ==
    \/ \E seed \in Seeds : Construct(seed)
    \/ \E seed \in Seeds, d \in SeqHours, ts \in SeqTimeSteps :
           CallComplete(seed, PatientId(1), d, ts)
    \/ \E seed \in Seeds, n \in 1..MaxPatients, d \in SeqHours :
           BatchStart(seed, n, d)
    \/ BatchPatientDone
    \/ BatchPatientRaises
    \/ BatchReturn
    \/ \E draws \in {0, 12} : BatchInterrupt(draws)

Spec == Init /\ [][Next]_vars

---------------------------------------------------------------------------
(* One method call on a constructed generator, from any RandomState: the  *)
(* state any earlier calls of the process may have left behind             *)

InitOneCall ==
    /\ rng \in 0..(RngMod - 1)
    /\ gens = {1}
    /\ calls = MaxCalls - 1
    /\ batch = NoBatch
    /\ ret = NoRet
    /\ finalized = 0
    /\ runs = {}
    /\ precs = {}
    /\ hist = NoHist
    /\ unit = NoUnit
    /\ eegIdle
    /\ IdleSvc

NextOneCall ==
    \/ \E seed \in Seeds, d \in SeqHours, ts \in SeqTimeSteps :
           CallComplete(seed, PatientId(1), d, ts)
    \/ \E seed \in Seeds, n \in 1..MaxPatients, d \in SeqHours :
           BatchStart(seed, n, d)
    \/ BatchPatientDone
    \/ BatchPatientRaises
    \/ BatchReturn
    \/ \E draws \in {0, 12} : BatchInterrupt(draws)

SpecOneCall == InitOneCall /\ [][NextOneCall]_vars

---------------------------------------------------------------------------
(* The clock of the scoring host and the texts made of it.  A text is the  *)
(* sequence of its characters' ASCII codes.                                *)

\* the decimal digit d as a character
Digit(d) == 48 + d

\* n in decimal, with no padding
RECURSIVE Decimal(_)
Decimal(n) == IF n < 10 THEN <<Digit(n)>> ELSE Append(Decimal(n \div 10), Digit(n % 10))

\* a field of one or two digits written without its leading zero
NoPad(n) == Decimal(n)

\* %m, %d, %H, %M, %S: two digits, zero-padded
Pad2(n) == <<Digit((n \div 10) % 10), Digit(n % 10)>>

\* the year of isoformat(): four digits, zero-padded
Pad4(n) == Pad2(n \div 100) \o Pad2(n % 100)

\* the civil date of day number z (days since 1970-01-01)
CivilFromDays(z) ==
    LET doe == (z + 719468) % 146097
        era == (z + 719468) \div 146097
        yoe == (doe - doe \div 1460 + doe \div 36524 - doe \div 146096) \div 365
        doy == doe - (365 * yoe + yoe \div 4 - yoe \div 100)
        mp == (5 * doy + 2) \div 153
        month == IF mp < 10 THEN mp + 3 ELSE mp - 9
    IN  [year |-> yoe + era * 400 + (IF month <= 2 THEN 1 ELSE 0),
         month |-> month,
         day |-> doy - (153 * mp + 2) \div 5 + 1]

\* datetime.utcnow() when the clock reads t: the fields of the datetime
utcnow(t) ==
    LET date == CivilFromDays(t \div 86400)
    IN  [year |-> date.year, month |-> date.month, day |-> date.day,
         hour |-> (t % 86400) \div 3600, minute |-> (t % 3600) \div 60,
         second |-> t % 60]

\* dt.strftime("%Y%m%dT%H%M%SZ"); %Y is the year in decimal, not padded
strftime(dt) ==
    Decimal(dt.year) \o Pad2(dt.month) \o Pad2(dt.day) \o <<84>>
        \o Pad2(dt.hour) \o Pad2(dt.minute) \o Pad2(dt.second) \o <<90>>

\* dt.isoformat() + "Z", for a datetime of zero microseconds
isoformatZ(dt) ==
    Pad4(dt.year) \o <<45>> \o Pad2(dt.month) \o <<45>> \o Pad2(dt.day) \o <<84>>
        \o Pad2(dt.hour) \o <<58>> \o Pad2(dt.minute) \o <<58>> \o Pad2(dt.second)
        \o <<90>>

---------------------------------------------------------------------------
(* server/mock_live_feed.py: the risk-scoring boundary.  Probabilities and *)
(* temperature adjustments are in thousandths; None is <<>> and a float    *)
(* that may be None is <<v>>.  One call is made per behaviour.              *)

None == <<>>

\* the feature lists read from models/*.json at import (lines 36-37, 48-49);
\* the files are not part of the sources, two short lists stand for them
temp_features == <<"lactate_elev", "temp_grad_5m">>
prognosis_features == <<"map_mmHg", "lactate_elev">>

CDS_CONFIG ==
    [seizure |-> [high |-> 700, medium |-> 400],
     sepsis |-> [high |-> 650, medium |-> 350],
     cardiac |-> [high |-> 600, medium |-> 300],
     renal |-> [high |-> 600, medium |-> 300],
     prognosis |-> [high |-> 650, medium |-> 400],
     temperature_adjustment_degC |-> [max |-> 1000, medium |-> 500]]

RISK_LABELS == [high |-> "HIGH", medium |-> "MED", low |-> "LOW"]

categorize(prob, high, medium) ==
    IF prob >= high THEN RISK_LABELS["high"]
    ELSE IF prob >= medium THEN RISK_LABELS["medium"]
    ELSE RISK_LABELS["low"]

\* row[cols] of a Series: KeyError unless every label of cols is in the index
HasColumns(row, cols) == Range(cols) \subseteq DOMAIN row

\* predicted is what temp_model.predict returns for the row's features; it
\* is asked only when row[temp_features] succeeds.  Any exception gives 0.0.
compute_temp_adjustment(row, predicted) ==
    LET delta == IF HasColumns(row, temp_features) THEN predicted ELSE 0
    IN  IF delta > 0 THEN delta ELSE 0

\* model is None, or <<p>> for a loaded model whose predict_proba gives p for
\* the row's features.  Any exception gives None.
compute_event_probability(model, row, cols) ==
    IF model = None THEN None
    ELSE IF HasColumns(row, cols) THEN model
    ELSE None

\* prob or 0.0
OrZero(prob) == IF prob = None \/ prob = <<0>> THEN 0 ELSE prob[1]

\* round(x, 2) of a value in thousandths, ties to the even hundredth
Round2(x) ==
    LET q == x \div 10
        r == x % 10
    IN  10 * (IF r > 5 \/ (r = 5 /\ q % 2 = 1) THEN q + 1 ELSE q)

\* one of the five if / elif blocks on a risk level
RiskAdvice(level, high, medium) ==
    IF level = "HIGH" THEN <<high>> ELSE IF level = "MED" THEN <<medium>> ELSE <<>>

\* models: the module-level model objects, by name, each None or <<p>>
build_scorecard(patient_id, row, predicted, models, now) ==
    LET temp_delta == compute_temp_adjustment(row, predicted)
        seizure_prob == compute_event_probability(models.seizure, row, prognosis_features)
        sepsis_prob == compute_event_probability(models.sepsis, row, prognosis_features)
        cardiac_prob == compute_event_probability(models.cardiac, row, prognosis_features)
        renal_prob == compute_event_probability(models.renal, row, prognosis_features)
        prognosis_prob == compute_event_probability(models.prognosis, row, prognosis_features)
        risks ==
            [seizure |-> categorize(OrZero(seizure_prob), CDS_CONFIG.seizure.high,
                                    CDS_CONFIG.seizure.medium),
             sepsis |-> categorize(OrZero(sepsis_prob), CDS_CONFIG.sepsis.high,
                                   CDS_CONFIG.sepsis.medium),
             cardiac |-> categorize(OrZero(cardiac_prob), CDS_CONFIG.cardiac.high,
                                    CDS_CONFIG.cardiac.medium),
             renal |-> categorize(OrZero(renal_prob), CDS_CONFIG.renal.high,
                                  CDS_CONFIG.renal.medium),
             prognosis |-> categorize(OrZero(prognosis_prob), CDS_CONFIG.prognosis.high,
                                      CDS_CONFIG.prognosis.medium)]
        recommendations ==
            RiskAdvice(risks.seizure,
                "Initiate continuous EEG; review antiseizure therapy.",
                "Increase neuro checks frequency; consider EEG if symptomatic.")
            \o RiskAdvice(risks.sepsis,
                "Sepsis bundle: cultures, antibiotics, fluids per protocol.",
                "Trend lactate; monitor vitals and labs closely.")
            \o RiskAdvice(risks.cardiac,
                "Cardiac consult; optimize MAP and rhythm management.",
                "Increase telemetry vigilance; review medications impacting QT/MAP.")
            \o RiskAdvice(risks.renal,
                "Renal consult; adjust nephrotoxic meds; optimize fluids.",
                "Monitor urine output and creatinine; adjust dosing.")
            \o RiskAdvice(risks.prognosis,
                "Discuss goals of care; consider advanced monitoring/support.",
                "Ensure multidisciplinary review; reassess trajectory in 12h.")
            \o (IF temp_delta >= CDS_CONFIG.temperature_adjustment_degC.max
                THEN <<"Strongly consider temperature reduction by ~1.0 degC.">>
                ELSE IF temp_delta >= CDS_CONFIG.temperature_adjustment_degC.medium
                THEN <<"Consider temperature reduction by ~0.5 degC.">>
                ELSE <<"Maintain current temperature; continue monitoring.">>)
    IN  [patient_id |-> patient_id,
         timestamp |-> isoformatZ(utcnow(now)),
         probabilities |-> [seizure |-> seizure_prob, sepsis |-> sepsis_prob,
                            cardiac |-> cardiac_prob, renal |-> renal_prob,
                            prognosis_poor_outcome |-> prognosis_prob],
         risk_levels |-> risks,
         temperature_adjustment_degC |-> Round2(temp_delta),
         recommendations |-> recommendations]

\* utils/feature_engineering.py build_feature_matrix: the first feature
\* column the frame lacks raises KeyError with that column's name
build_feature_matrix(columns, feature_cols) ==
    LET absent == {k \in DOMAIN feature_cols : feature_cols[k] \notin columns}
    IN  IF absent = {}
        THEN [kind |-> "return", exc |-> "", named |-> {}]
        ELSE [kind |-> "raise", exc |-> "KeyError",
              named |-> {feature_cols[CHOOSE k \in absent : \A j \in absent : k <= j]}]

\* the columns an input row may have: any of the feature columns
FeatureColumns == Range(temp_features) \cup Range(prognosis_features)

\* a row of the input frame with the feature columns cols
InputRow(cols) == [c \in cols \cup {"patient_id"} |-> IF c = "patient_id" THEN "LIVE-001" ELSE 0]

\* what temp_model predicts, and what a loaded classifier predicts
TempPredictions == {-300, 620, 1240}
Probabilities == {<<200>>, <<450>>, <<800>>}

\* the module-level models: the four optional ones may have failed to load
\* (safe_load gives None), the prognosis model is always loaded
ModelSets ==
    [seizure : {None} \cup Probabilities, sepsis : {None, <<450>>},
     cardiac : {None, <<800>>}, renal : {None, <<200>>}, prognosis : Probabilities]

\* build_scorecard(str(row[id_col]), row), as run_cds calls it for a row
ScoreRow(cols, predicted, models) ==
    /\ scored.fn = "none"
    /\ LET row == InputRow(cols)
       IN  scored' = [fn |-> "build_scorecard", columns |-> cols,
                      required |-> FeatureColumns, kind |-> "return",
                      exc |-> "", named |-> {},
                      out |-> build_scorecard(row["patient_id"], row, predicted,
                                              models, clock)]
    /\ UNCHANGED <<rng, genVars, unit, eeg, clock, files, writer, reader, client>>

\* build_feature_matrix(df, feature_cols) on a frame with the columns cols
FeatureMatrix(cols, feature_cols) ==
    /\ scored.fn = "none"
    /\ LET r == build_feature_matrix(cols, feature_cols)
       IN  scored' = [fn |-> "build_feature_matrix", columns |-> cols,
                      required |-> Range(feature_cols), kind |-> r.kind,
                      exc |-> r.exc, named |-> r.named, out |-> <<>>]
    /\ UNCHANGED <<rng, genVars, unit, eeg, clock, files, writer, reader, client>>

NextScore ==
    \/ \E cols \in SUBSET FeatureColumns, predicted \in TempPredictions, models \in ModelSets :
           ScoreRow(cols, predicted, models)
    \/ \E cols \in SUBSET FeatureColumns, feature_cols \in {temp_features, prognosis_features} :
           FeatureMatrix(cols, feature_cols)

SpecScore == Init /\ [][NextScore]_vars

---------------------------------------------------------------------------
(* server/mock_live_feed.py save_outputs, server/cds_api.py and            *)
(* bedside/cds_client.py.  The scoring host writes scorecard files into    *)
(* outputs/cds, the API server reads the latest one for each request, and  *)
(* the bedside client polls the server.  The three run concurrently: each  *)
(* action is one step of one of them.                                      *)

MaxSaves == 2         \* save_outputs calls per behaviour
MaxElapsed == 3       \* seconds the clock advances per behaviour

\* 2024-02-28T23:59:58Z and 2026-11-05T08:09:08Z
ClockLeap == 1709164798
ClockNine == 1793866148

\* readings of the clock at which a behaviour starts
ClockStarts == {ClockStart, ClockLeap, ClockNine}

\* f"cds_scorecards_{ts}.json"
OutPath(ts) ==
    <<99, 100, 115, 95, 115, 99, 111, 114, 101, 99, 97, 114, 100, 115, 95>>
        \o ts \o <<46, 106, 115, 111, 110>>

\* a < b for two texts, as Python orders strings: by the first character
\* that differs, a proper prefix before the longer text
LexLess(a, b) ==
    \E k \in 1..(Len(a) + 1) :
        /\ \A j \in 1..(k - 1) : j <= Len(b) /\ a[j] = b[j]
        /\ k <= Len(b)
        /\ (k <= Len(a) => a[k] < b[k])

\* files.sort(reverse=True); files[0]
SortedFirst(names) == CHOOSE p \in names : \A q \in names : q = p \/ LexLess(q, p)

\* glob the pattern, None if nothing matches, else the greatest name
latest_scorecards_path(dir) ==
    IF DOMAIN dir = {} THEN None ELSE <<SortedFirst(DOMAIN dir)>>

\* What a file holds: the document being dumped into it and how much of
\* its text has reached the file: "none" (just opened for writing), "some"
\* (a buffer flushed during the dump), "all" (flushed and closed).
FileOf(doc, part) == [doc |-> doc, part |-> part]

\* json.load(f): the document if its whole text is there, else
\* json.JSONDecodeError
json_load(content) ==
    IF content.part = "all" THEN [ok |-> TRUE, data |-> content.doc]
    ELSE [ok |-> FALSE, data |-> <<>>]

\* the file name gets the content, created if it is not there
WriteFile(dir, name, content) ==
    [f \in DOMAIN dir \cup {name} |-> IF f = name THEN content ELSE dir[f]]

\* a scorecard as run_cds produces it, and a dict that lacks risk_levels
GoodCard ==
    build_scorecard("LIVE-001", InputRow(FeatureColumns), 620,
                    [seizure |-> <<800>>, sepsis |-> None, cardiac |-> None,
                     renal |-> None, prognosis |-> <<450>>], ClockStart)
BadCard == [patient_id |-> "LIVE-001"]

\* the scorecards argument of save_outputs
ScorecardLists == {<<>>, <<GoodCard>>, <<BadCard>>}

\* the clock advances by dt seconds
Tick(dt) ==
    /\ \E start \in ClockStarts :
           start <= clock /\ clock + dt <= start + MaxElapsed
    /\ clock' = clock + dt
    /\ UNCHANGED <<rng, genVars, unit, eeg, files, writer, reader, client, scored>>

\* save_outputs(scorecards), lines 163-166: the name is made of the clock's
\* reading and open(out_path, "w") creates the file, or empties it if a
\* file of that name is there
SaveOpen(scorecards) ==
    /\ writer.pc = "idle"
    /\ writer.saves < MaxSaves
    /\ LET ts == strftime(utcnow(clock))
           out_path == OutPath(ts)
           doc == [generated_at |-> ts, items |-> scorecards]
       IN  /\ files' = WriteFile(files, out_path, FileOf(doc, "none"))
           /\ writer' = [pc |-> "dump", saves |-> writer.saves + 1,
                         out_path |-> out_path, doc |-> doc, done |-> writer.done]
    /\ UNCHANGED <<rng, genVars, unit, eeg, clock, reader, client, scored>>

\* json.dump, line 167: the buffer fills and a first part of the text is
\* written to the file
SaveFlush ==
    /\ writer.pc = "dump"
    /\ files[writer.out_path].part = "none"
    /\ files' = WriteFile(files, writer.out_path, FileOf(writer.doc, "some"))
    /\ UNCHANGED <<rng, genVars, unit, eeg, clock, writer, reader, client, scored>>

\* the with block ends: the rest of the text is written, the file is
\* closed and save_outputs returns out_path.  done is not in the code: it
\* collects the documents of the calls that have returned.
SaveClose ==
    /\ writer.pc = "dump"
    /\ files' = WriteFile(files, writer.out_path, FileOf(writer.doc, "all"))
    /\ writer' = [writer EXCEPT !.pc = "idle", !.done = @ \cup {writer.doc}]
    /\ UNCHANGED <<rng, genVars, unit, eeg, clock, reader, client, scored>>

\* the save_outputs calls that have returned
FinishedSaves == IF writer.pc = "idle" THEN writer.saves ELSE writer.saves - 1

\* get_latest_scorecards, lines 36-38: the path is chosen, 404 if none.
\* had_finished is not in the code: it records whether a save had returned
\* by then.
ServerPath ==
    /\ reader.pc = "path"
    /\ LET p == latest_scorecards_path(files)
       IN  reader' = [pc |-> IF p = None THEN "respond" ELSE "load", p |-> p,
                      had_finished |-> FinishedSaves > 0,
                      status |-> IF p = None THEN 404 ELSE 0, content |-> <<>>]
    /\ UNCHANGED <<rng, genVars, unit, eeg, clock, files, writer, client, scored>>

\* lines 39-44: the file is read and parsed; any exception gives 500
ServerLoad ==
    /\ reader.pc = "load"
    /\ LET r == json_load(files[reader.p[1]])
       IN  reader' = [reader EXCEPT !.pc = "respond",
                                    !.status = IF r.ok THEN 200 ELSE 500,
                                    !.content = r.data]
    /\ UNCHANGED <<rng, genVars, unit, eeg, clock, files, writer, client, scored>>

CaughtRequestErrors(e) == e \in {"ConnectionError", "Timeout", "HTTPError"}

\* except Exception catches every exception a poll can raise; only the
\* BaseException classes outside Exception pass it
Caught(e) == e \notin {"KeyboardInterrupt", "SystemExit", "GeneratorExit"}

\* print_brief(items): risks.get on a scorecard without risk_levels raises
\* AttributeError
print_brief(items, max_items) ==
    IF \E k \in 1..max_items : k <= Len(items) /\ "risk_levels" \notin DOMAIN items[k]
    THEN "AttributeError" ELSE ""

\* cds_client.py line 9: the request is sent, or the connection fails
ClientRequest(connected) ==
    /\ client.pc = "request"
    /\ IF connected
       THEN /\ client' = [client EXCEPT !.pc = "await", !.e = ""]
            /\ reader' = [NoReader EXCEPT !.pc = "path"]
       ELSE /\ client' = [client EXCEPT !.pc = "raised", !.e = "ConnectionError"]
            /\ UNCHANGED reader
    /\ UNCHANGED <<rng, genVars, unit, eeg, clock, files, writer, scored>>

\* timeout=5 passes with no response: requests raises Timeout and the
\* connection is dropped
ClientTimeout ==
    /\ client.pc = "await"
    /\ client' = [client EXCEPT !.pc = "raised", !.e = "Timeout"]
    /\ reader' = NoReader
    /\ UNCHANGED <<rng, genVars, unit, eeg, clock, files, writer, scored>>

\* lines 10-11 and 25-26: the response is there; raise_for_status raises
\* HTTPError on 404 and 500, else the items are printed
ClientReceive ==
    /\ client.pc = "await"
    /\ reader.pc = "respond"
    /\ LET e == IF reader.status >= 400 THEN "HTTPError"
                ELSE print_brief(reader.content.items, 3)
       IN  client' = [client EXCEPT !.pc = IF e = "" THEN "sleep" ELSE "raised",
                                    !.e = e, !.failed = FALSE]
    /\ reader' = [reader EXCEPT !.pc = "idle"]
    /\ UNCHANGED <<rng, genVars, unit, eeg, clock, files, writer, scored>>

\* lines 27-28: an exception left the try block; the handler prints it, and
\* an exception the handler does not catch ends the program
ClientExcept ==
    /\ client.pc = "raised"
    /\ client' = IF Caught(client.e)
                 THEN [client EXCEPT !.pc = "sleep", !.failed = TRUE]
                 ELSE [client EXCEPT !.pc = "exited", !.failed = TRUE]
    /\ UNCHANGED <<rng, genVars, unit, eeg, clock, files, writer, reader, scored>>

\* line 29: time.sleep(10), then the loop's next iteration
ClientSleep ==
    /\ client.pc = "sleep"
    /\ client' = [client EXCEPT !.pc = "request", !.interval = 10]
    /\ UNCHANGED <<rng, genVars, unit, eeg, clock, files, writer, reader, scored>>

ClientNext ==
    \/ \E connected \in BOOLEAN : ClientRequest(connected)
    \/ ClientTimeout
    \/ ClientReceive
    \/ ClientExcept
    \/ ClientSleep

InitServe ==
    /\ rng = 0
    /\ IdleGen
    /\ unit = NoUnit
    /\ eegIdle
    /\ clock \in ClockStarts
    /\ files = << >>
    /\ writer = NoWriter
    /\ reader = NoReader
    /\ client = NoClient
    /\ scored = NoScored

NextServe ==
    \/ \E dt \in 1..2 : Tick(dt)
    \/ \E scorecards \in ScorecardLists : SaveOpen(scorecards)
    \/ SaveFlush
    \/ SaveClose
    \/ ServerPath
    \/ ServerLoad
    \/ \E connected \in BOOLEAN : ClientRequest(connected)
    \/ ClientTimeout
    \/ ClientReceive
    \/ ClientExcept
    \/ ClientSleep

SpecServe == InitServe /\ [][NextServe]_vars

\* the scoring host alone: saves at the readings of an advancing clock
NextSave ==
    \/ \E dt \in 1..2 : Tick(dt)
    \/ \E scorecards \in ScorecardLists : SaveOpen(scorecards)
    \/ SaveFlush
    \/ SaveClose

SpecSave == InitServe /\ [][NextSave]_vars

\* the bedside client polling the server while the scoring host saves, the
\* clock standing still
NextPoll ==
    \/ \E scorecards \in ScorecardLists : SaveOpen(scorecards)
    \/ SaveFlush
    \/ SaveClose
    \/ ServerPath
    \/ ServerLoad
    \/ \E connected \in BOOLEAN : ClientRequest(connected)
    \/ ClientTimeout
    \/ ClientReceive
    \/ ClientExcept
    \/ ClientSleep

\* The bedside client is a running program: whenever it can take a step it
\* eventually takes one.
SpecPoll == Init /\ [][NextPoll]_vars /\ WF_vars(ClientNext)

---------------------------------------------------------------------------
(* One process that holds generator objects and runs make_mock_dataframe:  *)
(* every np.random call of either module is on numpy's one global          *)
(* RandomState                                                             *)

\* the local time zones of the host, in seconds east of UTC
UtcOffsets == {0, 3600}

\* datetime.utcnow().timestamp(): utcnow() is a naive datetime, which
\* timestamp() reads as local time
timestamp(t, utc_offset) == t - utc_offset

\* f"LIVE-{i+1:03d}" for loop index i: the prefix and three decimal digits
LiveId(i) == <<"LIVE-", ((i + 1) \div 100) % 10, ((i + 1) \div 10) % 10, (i + 1) % 10>>

\* The seed is taken from the clock; then one array of n_patients draws per
\* prognosis feature, and one more per temp feature not among them.
make_mock_dataframe(now, n_patients) ==
    LET s0 == SeedState(now % 1000000)
        extra == SelectSeq(temp_features,
                           LAMBDA c : c \notin Range(prognosis_features))
        drawn == prognosis_features \o extra
        columns == prognosis_features \o <<"patient_id">> \o extra
        position(c) == CHOOSE j \in DOMAIN drawn : drawn[j] = c
        normal(c) ==
            [i \in 1..n_patients |->
                Val(Normal(AdvanceN(s0, (position(c) - 1) * n_patients + i), 1000))]
        data == [c \in Range(columns) |->
                    IF c = "patient_id"
                    THEN Arr([i \in 1..n_patients |-> LiveId(i - 1)])
                    ELSE Arr(normal(c))]
    IN  [rng |-> AdvanceN(s0, Len(drawn) * n_patients),
         df |-> DataFrame(columns, data).df]

\* make_mock_dataframe(n_patients), called in the process
MakeMock(n_patients, utc_offset) ==
    /\ batch.pc = "idle"
    /\ calls < MaxCalls
    /\ LET r == make_mock_dataframe(timestamp(clock, utc_offset), n_patients)
       IN  /\ rng' = r.rng
           /\ ret' = [kind |-> "return", call |-> "make_mock_dataframe",
                      exc |-> "", df |-> r.df]
    /\ calls' = calls + 1
    /\ UNCHANGED <<gens, batch, finalized, runs, precs, hist, unit, eeg, svcVars>>

\* the state after generator = InfantPhysiologicalDataGenerator(seed=1)
InitProcess ==
    /\ rng = SeedState(1)
    /\ gens = {1}
    /\ calls = 0
    /\ batch = NoBatch
    /\ ret = NoRet
    /\ finalized = 0
    /\ runs = {}
    /\ precs = {}
    /\ hist = NoHist
    /\ unit = NoUnit
    /\ eegIdle
    /\ IdleSvc

\* constructions, single generation calls and make_mock_dataframe, in any
\* order
NextProcess ==
    \/ \E seed \in Seeds : Construct(seed)
    \/ \E seed \in Seeds, d \in SeqHours, ts \in SeqTimeSteps :
           CallComplete(seed, PatientId(1), d, ts)
    \/ \E n \in 1..MaxPatients, utc_offset \in UtcOffsets : MakeMock(n, utc_offset)

SpecProcess == InitProcess /\ [][NextProcess]_vars

---------------------------------------------------------------------------
(* Properties of single calls (SpecUnit) *)

\* the record a single call of generate_complete_patient_dataset returned
Returned ==
    /\ unit.fn = "generate_complete_patient_dataset"
    /\ unit.out.ok

\* C1: in every record returned by generate_complete_patient_dataset every
\* vitals sample lies within its declared bound: target_temp - 0.5 <=
\* rectal_temperature_c <= baseline_rectal_temp + 0.5, 80 <= heart_rate_bpm
\* <= 180, 40 <= systolic_bp_mmhg <= 80, 20 <= diastolic_bp_mmhg <= 50 and
\* 92 <= oxygen_saturation_percent <= 100.
C1_VitalsWithinBounds ==
    Returned =>
        \A k \in DOMAIN unit.out.df.rows :
            LET row == unit.out.df.rows[k]
            IN  /\ unit.out.protocol.target_temp - 500 <= row["rectal_temperature_c"]
                /\ row["rectal_temperature_c"]
                       <= unit.out.baseline.baseline_rectal_temp + 500
                /\ 80000 <= row["heart_rate_bpm"]
                /\ row["heart_rate_bpm"] <= 180000
                /\ 40000 <= row["systolic_bp_mmhg"]
                /\ row["systolic_bp_mmhg"] <= 80000
                /\ 20000 <= row["diastolic_bp_mmhg"]
                /\ row["diastolic_bp_mmhg"] <= 50000
                /\ 92000 <= row["oxygen_saturation_percent"]
                /\ row["oxygen_saturation_percent"] <= 100000

\* C1 witness: a returned record in which one sample sits on a lower bound
\* and one on an upper bound, so the clipping has acted in both directions
C1_Witness ==
    /\ Returned
    /\ \E k \in DOMAIN unit.out.df.rows :
           unit.out.df.rows[k]["oxygen_saturation_percent"] = 92000
    /\ \E k \in DOMAIN unit.out.df.rows :
           unit.out.df.rows[k]["systolic_bp_mmhg"] = 80000

\* C10: every protocol returned by generate_cooling_protocol has
\* target_temp, cooling_rate and rewarming_rate inside its severity's range
\* (mild: [32.5,33.5], [0.1,0.2], [0.05,0.1]; moderate: [33.0,33.5],
\* [0.15,0.25], [0.05,0.1]; severe: [32.0,33.5], [0.2,0.3], [0.05,0.08]) and
\* duration_hours 48 for mild, 72 for moderate and severe.
C10_ProtocolWithinRanges ==
    unit.fn = "generate_cooling_protocol" =>
        LET table ==
                [mild     |-> [target |-> <<32500, 33500>>, cooling |-> <<100, 200>>,
                               rewarming |-> <<50, 100>>, duration |-> 48],
                 moderate |-> [target |-> <<33000, 33500>>, cooling |-> <<150, 250>>,
                               rewarming |-> <<50, 100>>, duration |-> 72],
                 severe   |-> [target |-> <<32000, 33500>>, cooling |-> <<200, 300>>,
                               rewarming |-> <<50, 80>>, duration |-> 72]]
            range == table[unit.hie_severity]
            within(r, bounds) ==
                bounds[1] * r.den <= r.num /\ r.num <= bounds[2] * r.den
        IN  /\ within(Rate(unit.out.target_temp), range.target)
            /\ within(unit.out.cooling_rate, range.cooling)
            /\ within(unit.out.rewarming_rate, range.rewarming)
            /\ unit.out.duration_hours = range.duration

\* C10 witness: a mild protocol was returned whose target lies below the
\* moderate range and whose cooling rate lies below the severe range
C10_Witness ==
    /\ unit.fn = "generate_cooling_protocol"
    /\ unit.hie_severity = "mild"
    /\ unit.out.duration_hours = 48
    /\ unit.out.target_temp < 33000
    /\ unit.out.cooling_rate.num < 200 * unit.out.cooling_rate.den

\* the column labels of the returned frame
Columns == Range(unit.out.df.columns)

\* C9: the dataset returned by generate_complete_patient_dataset has columns
\* with exactly these names: patient_id, time_minutes, time_hours,
\* rectal_temperature_c, heart_rate_bpm, systolic_bp_mmhg, diastolic_bp_mmhg,
\* oxygen_saturation_percent, pH, pCO2_mmhg, pO2_mmhg, lactate_mmol,
\* hie_severity, target_temp_c, plus one column per baseline parameter whose
\* name starts with baseline_ and whose value is the same in every row.
C9_ColumnNames ==
    Returned =>
        LET named == {"patient_id", "time_minutes", "time_hours",
                      "rectal_temperature_c", "heart_rate_bpm", "systolic_bp_mmhg",
                      "diastolic_bp_mmhg", "oxygen_saturation_percent", "pH",
                      "pCO2_mmhg", "pO2_mmhg", "lactate_mmol", "hie_severity",
                      "target_temp_c"}
            params == Range(BaselineKeys) \ {"patient_id"}
        IN  /\ Columns = named \cup {"baseline_" \o key : key \in params}
            /\ Len(unit.out.df.columns) = Cardinality(Columns)
            /\ \A key \in params, k \in DOMAIN unit.out.df.rows :
                   unit.out.df.rows[k]["baseline_" \o key] = unit.out.baseline[key]

\* C9 witness: a returned frame that has the baseline columns and the
\* thirteen named columns other than time_hours
C9_Witness ==
    /\ Returned
    /\ {"baseline_" \o key : key \in Range(BaselineKeys) \ {"patient_id"}}
           \subseteq Columns
    /\ {"patient_id", "time_minutes", "rectal_temperature_c", "heart_rate_bpm",
        "systolic_bp_mmhg", "diastolic_bp_mmhg", "oxygen_saturation_percent",
        "pH", "pCO2_mmhg", "pO2_mmhg", "lactate_mmol", "hie_severity",
        "target_temp_c"} \subseteq Columns
    /\ "time_hours" \notin Columns
    /\ {"time_hours_x", "time_hours_y"} \subseteq Columns

\* the blood-gas samples of the returned record: sample j was taken at
\* SampleMinute(j) and has the values SampleValues(j)
NumSamples == len(unit.out.gas.pH)
SampleMinute(j) == 60 * unit.out.gas.time_points[j]
SampleValues(j) ==
    [pH |-> Val(unit.out.gas.pH[j]), pCO2_mmhg |-> Val(unit.out.gas.pco2[j]),
     pO2_mmhg |-> Val(unit.out.gas.po2[j]),
     lactate_mmol |-> Val(unit.out.gas.lactate[j])]

\* the row carries the values of sample j in its four blood-gas columns
Carries(row, j) == \A c \in FilledColumns : row[c] = SampleValues(j)[c]

\* the row's four blood-gas columns are missing
Missing(row) == \A c \in FilledColumns : row[c] = NaN

\* C5: no look-ahead in alignment: a vitals row at time t of the returned
\* record carries either no blood-gas values or those of a sample taken at
\* or before t, and a row earlier than the first sample has the four
\* columns missing.
C5_NoLookAhead ==
    Returned =>
        \A k \in DOMAIN unit.out.df.rows :
            LET row == unit.out.df.rows[k]
            IN  /\ \/ Missing(row)
                   \/ \E j \in 1..NumSamples :
                          /\ SampleMinute(j) <= row["time_minutes"]
                          /\ Carries(row, j)
                /\ row["time_minutes"] < SampleMinute(1) => Missing(row)

\* C5 witness: a record with two different samples, in which a row before
\* the second sample carries the first and a row from the second sample's
\* time on carries the second
C5_Witness ==
    /\ Returned
    /\ NumSamples >= 2
    /\ \A c \in FilledColumns : SampleValues(1)[c] # SampleValues(2)[c]
    /\ \E k \in DOMAIN unit.out.df.rows :
           /\ 0 < unit.out.df.rows[k]["time_minutes"]
           /\ unit.out.df.rows[k]["time_minutes"] < SampleMinute(2)
           /\ Carries(unit.out.df.rows[k], 1)
    /\ \E k \in DOMAIN unit.out.df.rows :
           /\ SampleMinute(2) < unit.out.df.rows[k]["time_minutes"]
           /\ Carries(unit.out.df.rows[k], 2)

\* the last sample taken at or before minute t
LastSampleBy(t) ==
    CHOOSE j \in 1..NumSamples :
        /\ SampleMinute(j) <= t
        /\ \A m \in 1..NumSamples : SampleMinute(m) <= t => m <= j

\* C6: last observation carried forward: for every duration_hours and every
\* time_step_minutes each vitals row at time t of the returned record
\* carries the values of the blood-gas sample with the greatest timestamp
\* <= t.
C6_LastObservationCarriedForward ==
    Returned =>
        \A k \in DOMAIN unit.out.df.rows :
            Carries(unit.out.df.rows[k],
                    LastSampleBy(unit.out.df.rows[k]["time_minutes"]))

\* C6 witness: at a cadence whose rows fall on the sample times, a row after
\* the second sample carries the second sample
C6_Witness ==
    /\ Returned
    /\ unit.time_step_minutes = 60
    /\ NumSamples >= 2
    /\ SampleValues(1) # SampleValues(2)
    /\ \E k \in DOMAIN unit.out.df.rows :
           /\ SampleMinute(2) < unit.out.df.rows[k]["time_minutes"]
           /\ Carries(unit.out.df.rows[k], 2)

---------------------------------------------------------------------------
(* Properties of calls on a generator (Spec, SpecOneCall) *)

\* C2: two runs of generate_batch_dataset with the same base seed, the same
\* num_patients and the same duration return identical datasets, row for
\* row and value for value.
C2_BatchDeterministic ==
    \A a, b \in runs :
        (/\ a.seed = b.seed
         /\ a.num_patients = b.num_patients
         /\ a.duration_hours = b.duration_hours) => a.df = b.df

\* C3: a patient's record depends only on the base seed and the patient: it
\* is the same whichever calls drew from the random stream before it, so
\* generating the patient alone, first, or after other patients gives the
\* same record.
C3_PatientStreamIndependent ==
    \A a, b \in precs :
        (/\ a.seed = b.seed
         /\ a.patient_id = b.patient_id
         /\ a.duration_hours = b.duration_hours
         /\ a.time_step_minutes = b.time_step_minutes) => a.df = b.df

\* the number of grid points of duration_hours at time_step_minutes,
\* counting the one at hour 0: the least n with n * time_step_minutes >=
\* duration_hours * 60
RowsExpected(duration_hours, time_step_minutes) ==
    CHOOSE n \in 0..(duration_hours * 60) :
        /\ n * time_step_minutes >= duration_hours * 60
        /\ (n - 1) * time_step_minutes < duration_hours * 60

\* a patient generated for 72 hours at the 5-minute cadence
Patient72 == PatientPipeline(SeedState(1), PatientId(0), 72, 5)

RecordsObtained ==
    Cardinality({ret.df.rows[k]["patient_id"] : k \in DOMAIN ret.df.rows})

\* C8: when generate_batch_dataset is stopped after k patients have been
\* finalized, the caller obtains exactly those k complete patient records
\* (and never a partial one).
C8_CancellationKeepsFinalized ==
    (ret.call = "generate_batch_dataset" /\ ret.exc = "KeyboardInterrupt")
        => RecordsObtained = finalized

\* C8 witness: a batch was stopped after one patient had been finalized
C8_Witness ==
    /\ ret.call = "generate_batch_dataset"
    /\ ret.exc = "KeyboardInterrupt"
    /\ finalized = 1

---------------------------------------------------------------------------
(* Properties of generate_eeg_data (SpecEEG) *)

\* C4: on the 1-second grid every seizure consists of exactly 120 consecutive
\* SeizureActive samples and then reverts to Normal: no run of SeizureActive
\* samples grows beyond 120, and a run that a Normal sample has ended is 120
\* samples long.  (A run that the end of the recording cuts short is not
\* counted.)
C4_SeizureLastsTwoMinutes ==
    /\ eeg.run <= 2 * 60
    /\ eeg.episode # NaN => eeg.episode[1] = 2 * 60

\* C4 witness: a seizure triggered by the random onset has run its window and
\* the state is Normal again after a run of 120 samples
C4_Witness ==
    /\ eeg.scheduled = NaN
    /\ eeg.episode = Val(2 * 60)
    /\ ~eeg.seizure_active

---------------------------------------------------------------------------
(* Properties of the risk-scoring boundary (SpecScore) *)

\* the feature columns the call needs and its input lacks
MissingColumns ==
    IF scored.fn = "none" THEN {} ELSE scored.required \ scored.columns

\* C11: at the risk-scoring boundary a required feature column absent from
\* the input always surfaces as an error naming missing columns: a call whose
\* input lacks a required column raises, and never returns a scorecard
\* holding defaults (a 0.0 temperature adjustment, a missing probability, a
\* LOW risk level) in place of what it could not compute.
C11_MissingColumnRaises ==
    MissingColumns # {} =>
        /\ scored.kind = "raise"
        /\ scored.named # {}
        /\ scored.named \subseteq MissingColumns

\* C11 witness: a row with no feature column at all was scored, and the
\* scorecard came back with temperature adjustment 0.0, every probability
\* None and every risk level LOW
C11_Witness ==
    /\ scored.fn = "build_scorecard"
    /\ scored.columns = {}
    /\ scored.kind = "return"
    /\ scored.out.temperature_adjustment_degC = 0
    /\ \A m \in DOMAIN scored.out.probabilities : scored.out.probabilities[m] = None
    /\ \A m \in DOMAIN scored.out.risk_levels : scored.out.risk_levels[m] = "LOW"

---------------------------------------------------------------------------
(* Properties of the scorecard files, the API server and the bedside       *)
(* client (SpecServe, SpecPoll)                                            *)

\* C12: after any sequence of save_outputs calls made at non-decreasing UTC
\* times, the file latest_scorecards_path selects (the lexicographically
\* greatest name) is the file the most recent save wrote, and it holds that
\* save's scorecards.
C12_LatestIsMostRecentSave ==
    (writer.pc = "idle" /\ writer.saves > 0) =>
        /\ latest_scorecards_path(files) = <<writer.out_path>>
        /\ json_load(files[writer.out_path]) = [ok |-> TRUE, data |-> writer.doc]

\* C12 witness: two saves made at different readings of the clock have
\* returned, with different scorecards, and the latest file is the second's
C12_Witness ==
    /\ writer.pc = "idle"
    /\ writer.saves = 2
    /\ Cardinality(DOMAIN files) = 2
    /\ latest_scorecards_path(files) = <<writer.out_path>>
    /\ \A f \in DOMAIN files :
           f # writer.out_path => files[f].doc.items # writer.doc.items

\* C13: the polling client never terminates because of a failed poll: it
\* never exits, every exception a poll raises is eventually followed by the
\* next request, and a request is only ever made first or after a sleep of
\* the fixed 10 seconds.
C13_FailedPollIsRetried ==
    /\ [](client.pc # "exited")
    /\ (client.pc = "raised") ~> (client.pc = "request")
    /\ [][(client.pc # "request" /\ client'.pc = "request")
              => (client.pc = "sleep" /\ client'.interval = 10)]_vars

\* C13 witness: a poll failed on a scorecard without risk_levels, the error
\* was handled and the client has slept and is about to poll again
C13_Witness ==
    /\ client.pc = "request"
    /\ client.failed
    /\ client.e = "AttributeError"
    /\ client.interval = 10

\* C20: a request to the latest-scorecards endpoint that runs while
\* save_outputs is writing never observes a partially written file: a 200
\* response carries the complete document of a save that has finished, and
\* a request made when some save had already finished (so that it would
\* succeed with no save in progress) is never answered 500.
C20_SaveNeverBreaksRequest ==
    reader.pc = "respond" =>
        /\ reader.status = 200 => reader.content \in writer.done
        /\ reader.had_finished => reader.status # 500

\* C20 witness: a request made while a save was in progress, after an
\* earlier save had finished, was answered 200
C20_Witness ==
    /\ reader.pc = "respond"
    /\ reader.status = 200
    /\ reader.had_finished
    /\ writer.pc = "dump"

---------------------------------------------------------------------------
(* C14: the two phases of the temperature trajectory *)

\* linear decay at the protocol's cooling_rate (degrees per hour) has reached
\* target by minute t: t / 60 >= |baseline - target| / cooling_rate
DecayReachedTarget(protocol, t) ==
    t * protocol.cooling_rate.num
        >= Abs(protocol.baseline_temp - protocol.target_temp) * 60
               * protocol.cooling_rate.den

\* the samples of record r before the decay reaches target are baseline less
\* cooling_rate / 60 per minute before jitter, the others are target
TwoPhaseAtCoolingTime(r) ==
    \A k \in DOMAIN r.time_points :
        IF DecayReachedTarget(r.protocol, r.time_points[k])
        THEN /\ ~r.cooling[k]
             /\ r.noise_free[k] = r.protocol.target_temp
        ELSE /\ r.cooling[k]
             /\ r.noise_free[k] = r.protocol.baseline_temp
                    - RateTimes(r.protocol.cooling_rate, r.time_points[k])

\* C14: in a record of generate_complete_patient_dataset the noise-free
\* temperature falls from baseline at the protocol's cooling_rate, divided
\* by 60 once, and the maintenance phase begins at the first sample whose
\* elapsed time reaches |baseline - target| / cooling_rate hours.
C14_TwoPhaseAtCoolingTime ==
    (unit.fn = "generate_complete_patient_dataset" /\ unit.out.ok)
        => TwoPhaseAtCoolingTime(unit.out)

\* C14 witness: a call has produced a sample at minute 60 whose value before
\* jitter is above baseline less one hour of cooling, and the 72-hour record
\* has no maintenance sample although its decay would reach target within it
C14_Witness ==
    /\ unit.fn = "generate_complete_patient_dataset"
    /\ unit.out.ok
    /\ Patient72.ok
    /\ \E k \in DOMAIN unit.out.time_points :
           /\ unit.out.time_points[k] = 60
           /\ unit.out.cooling[k]
           /\ unit.out.noise_free[k] > unit.out.protocol.baseline_temp
                  - RateTimes(unit.out.protocol.cooling_rate, 60)
    /\ \A k \in DOMAIN Patient72.time_points : Patient72.cooling[k]
    /\ \E k \in DOMAIN Patient72.time_points :
           DecayReachedTarget(Patient72.protocol, Patient72.time_points[k])

---------------------------------------------------------------------------
(* C15: the desaturation dips *)

\* minute t falls in the first half of its 20-minute cycle
FirstHalfOfCycle(t) == t % 20 < 10

\* C15: generate_complete_patient_dataset sets respiratory_distress exactly
\* when hie_severity is severe; with the flag set the sample at minute t
\* takes a dip if and only if t mod 20 < 10, and with the flag unset no
\* sample takes a dip.
C15_DipInFirstHalfOfCycle ==
    unit.fn = "generate_complete_patient_dataset" =>
        \A k \in DOMAIN unit.out.dips :
            unit.out.dips[k] <=>
                /\ unit.out.baseline.hie_severity = "severe"
                /\ FirstHalfOfCycle(unit.out.time_points[k])

\* C15 witness: a severe patient at the 5-minute cadence has a dip in the
\* sample at minute 10, the start of the second half of the first cycle
C15_Witness ==
    /\ unit.fn = "generate_complete_patient_dataset"
    /\ unit.out.ok
    /\ unit.out.baseline.hie_severity = "severe"
    /\ unit.time_step_minutes = 5
    /\ \E k \in DOMAIN unit.out.dips :
           /\ unit.out.time_points[k] = 10
           /\ unit.out.dips[k]

\* with the flag unset no sample takes a dip
C15_NoDipWithoutDistress ==
    (unit.fn = "generate_complete_patient_dataset"
        /\ unit.out.baseline.hie_severity # "severe")
    => \A k \in DOMAIN unit.out.dips : ~unit.out.dips[k]

---------------------------------------------------------------------------
(* C16: Normal before the onset *)

\* the elapsed time, in seconds, of the sample the loop produced last
LastSampleTime == (eeg.i - 1) * eeg.time_step

\* C16: the loop is entered in Normal, and a sample is generated in
\* SeizureActive only if its time lies in [onset, onset + 2 minutes) of the
\* onset then in force, be it drawn or scheduled by the caller: every sample
\* before the onset time is Normal.
C16_NormalBeforeOnset ==
    /\ (eeg.pc = "loop" /\ eeg.i = 0) => ~eeg.seizure_active
    /\ (eeg.pc # "idle" /\ eeg.i > 0 /\ eeg.seizure_active) =>
           /\ eeg.seizure_start_minute # NaN
           /\ eeg.seizure_start_minute[1] <= LastSampleTime
           /\ LastSampleTime < eeg.seizure_start_minute[1] + 2 * 60

\* C16 witness: with a seizure scheduled for minute 1, the first sample, at
\* second 0, has been generated in SeizureActive, with elevated band powers
C16_Witness ==
    /\ eeg.pc = "loop"
    /\ eeg.scheduled = Val(60)
    /\ eeg.i = 1
    /\ eeg.seizure_active
    /\ eeg.sample # NaN
    /\ eeg.sample[1].delta >= 50000
    /\ eeg.sample[1].alpha >= 200000

---------------------------------------------------------------------------
(* C17: seizure_risk_factor and hie_severity *)

\* C17: in every baseline generate_baseline_parameters returns,
\* seizure_risk_factor is the table's value for that baseline's own
\* hie_severity: 0.1 for mild, 0.4 for moderate, 0.7 for severe.
C17_RiskFollowsSeverity ==
    unit.fn = "generate_baseline_parameters" =>
        unit.out.seizure_risk_factor = SeizureRiskTable[unit.out.hie_severity]

\* C17 witness: a baseline has been returned with hie_severity mild and the
\* seizure_risk_factor of severe
C17_Witness ==
    /\ unit.fn = "generate_baseline_parameters"
    /\ unit.out.hie_severity = "mild"
    /\ unit.out.seizure_risk_factor = 700

---------------------------------------------------------------------------
(* C18: the lengths of the series *)

\* C18: for every duration_hours >= 1 and every time_step,
\* generate_complete_patient_dataset builds its tables without an error, the
\* blood-gas time_points having as many entries as each of the pH, pCO2,
\* pO2 and lactate arrays.
C18_SeriesLengthsAgree ==
    unit.fn = "generate_complete_patient_dataset" =>
        /\ unit.out.ok
        /\ len(unit.out.gas.pH) = len(unit.out.gas.time_points)
        /\ len(unit.out.gas.pco2) = len(unit.out.gas.time_points)
        /\ len(unit.out.gas.po2) = len(unit.out.gas.time_points)
        /\ len(unit.out.gas.lactate) = len(unit.out.gas.time_points)

\* C18 witness: a call for 1 hour has raised ValueError on the blood-gas
\* table, with one blood-gas time point and no blood-gas value
C18_Witness ==
    /\ unit.fn = "generate_complete_patient_dataset"
    /\ unit.duration_hours = 1
    /\ ~unit.out.ok
    /\ unit.out.exc = "ValueError"
    /\ len(unit.out.gas.time_points) = 1
    /\ len(unit.out.gas.pH) = 0

\* the calls whose duration is a multiple of 4 hours return
C18_MultiplesOfFourReturn ==
    (unit.fn = "generate_complete_patient_dataset" /\ unit.duration_hours % 4 = 0)
        => unit.out.ok

---------------------------------------------------------------------------
(* C19: a generator's output and the other users of numpy's RandomState *)

\* The RandomState generator `seed` would hold after the first k entries of
\* its history if nothing else in the process had drawn from or reseeded
\* numpy's generator since its construction.
RECURSIVE OwnState(_, _)
OwnState(seed, k) ==
    IF k = 0 THEN SeedState(seed)
    ELSE LET e == hist[seed][k]
             s == OwnState(seed, k - 1)
         IN  IF e.kind = "call"
             THEN generate_complete_patient_dataset(s, e.patient_id,
                      e.duration_hours, e.time_step_minutes).rng
             ELSE AdvanceN(s, e.draws)

\* call k of generator `seed` gave what the generator gives on its own
OwnOutput(seed, k) ==
    LET e == hist[seed][k]
        r == generate_complete_patient_dataset(OwnState(seed, k - 1),
                 e.patient_id, e.duration_hours, e.time_step_minutes)
    IN  e.ok = r.ok /\ e.df = r.df

\* C19: the output of every generation call on a generator is the output
\* the same sequence of calls gives when no other generator is constructed
\* and make_mock_dataframe is not run in the process.
C19_OutputIndependentOfOthers ==
    \A seed \in gens :
        \A k \in DOMAIN hist[seed] :
            hist[seed][k].kind = "call" => OwnOutput(seed, k)

\* C19 witness: after a first call on generator 1, a second generator was
\* constructed or make_mock_dataframe was run, and a second call on
\* generator 1 has returned a record other than the one it gives on its own
C19_Witness ==
    /\ Len(hist[1]) = 2
    /\ hist[1][1].kind = "call"
    /\ hist[1][2].kind = "call"
    /\ hist[1][2].ok
    /\ OwnOutput(1, 1)
    /\ ~OwnOutput(1, 2)
    /\ calls = 3

\* C19 witness of the two interferences, each apart
C19_AfterSecondGenerator == C19_Witness /\ gens = {1, 2}
C19_AfterMakeMock == C19_Witness /\ gens = {1} /\ ret.call = "generate_complete_patient_dataset"

=============================================================================
